---- MODULE Spec2Model ----
(***************************************************************************)
(* Model of the character-trie inverted index of elasticlunr-rs            *)
(* (src/src/inverted_index.rs).                                            *)
(*                                                                         *)
(* Strings (tokens and document references) are sequences of UTF-8 bytes,  *)
(* as Rust's &str is.  A char is a Unicode scalar value (a number).  An    *)
(* IndexItem is a record [docs, doc_freq, children] whose children map     *)
(* holds IndexItem records again, so the trie is a nested value exactly as *)
(* the Rust struct is.                                                     *)
(***************************************************************************)
EXTENDS Integers, Sequences, FiniteSets, TLC

(***************************************************************************)
(* Bounds of the model.                                                    *)
(***************************************************************************)
\* number of add_token / remove_token calls in one behaviour
MaxCalls == 3

\* the codepoints tokens are made of: 'a' (one UTF-8 byte) and U+00E9
\* (two UTF-8 bytes)
Alphabet == {97, 233}

\* the term frequencies callers pass (f64 values; 0.0 is a legal input)
Freqs == {0, 2}

(***************************************************************************)
(* Option<T>                                                               *)
(***************************************************************************)
None == [some |-> FALSE]
Some(v) == [some |-> TRUE, val |-> v]

(***************************************************************************)
(* UTF-8: char::to_string, str::char_indices, str::chars, &token[index..]  *)
(***************************************************************************)
\* char.to_string(): the UTF-8 encoding of one scalar value
to_string(char) ==
    IF char < 128 THEN <<char>>
    ELSE IF char < 2048 THEN <<192 + (char \div 64), 128 + (char % 64)>>
    ELSE <<224 + (char \div 4096), 128 + ((char \div 64) % 64), 128 + (char % 64)>>

\* number of bytes of the encoded char whose first byte is b
Utf8Width(b) == IF b < 128 THEN 1 ELSE IF b < 224 THEN 2 ELSE 3

\* the scalar value encoded by the bytes bs (one whole encoded char)
Utf8Decode(bs) ==
    IF Len(bs) = 1 THEN bs[1]
    ELSE IF Len(bs) = 2 THEN (bs[1] - 192) * 64 + (bs[2] - 128)
    ELSE (bs[1] - 224) * 4096 + (bs[2] - 128) * 64 + (bs[3] - 128)

RECURSIVE CharIndicesFrom(_, _)
CharIndicesFrom(token, i) ==
    IF i >= Len(token) THEN <<>>
    ELSE LET w == Utf8Width(token[i + 1])
         IN  <<[index |-> i, char |-> Utf8Decode(SubSeq(token, i + 1, i + w))]>>
                 \o CharIndicesFrom(token, i + w)

\* token.char_indices(): the (byte offset, char) pairs of the token, in order
char_indices(token) == CharIndicesFrom(token, 0)

\* token.chars()
chars(token) ==
    LET iter == char_indices(token) IN [k \in 1..Len(iter) |-> iter[k].char]

\* variant of SliceFrom: &token[1..], the remainder after one byte
SliceFrom_onebyte(token, index) == SubSeq(token, 2, Len(token))

\* &token[index..]
SliceFrom(token, index) == SubSeq(token, index + 1, Len(token))

(***************************************************************************)
(* The strings of the model                                                *)
(***************************************************************************)
RECURSIVE Str(_)
\* the string made of the chars cs: each char pushed in turn
Str(cs) == IF Len(cs) = 0 THEN <<>> ELSE to_string(Head(cs)) \o Str(Tail(cs))

\* the tokens passed to add_token and remove_token: the empty token, a chain
\* of one, two and three codepoints (each a prefix of the next) and a sibling
Tokens ==
    {Str(<<>>), Str(<<97>>), Str(<<233>>), Str(<<97, 233>>), Str(<<97, 233, 97>>)}

\* the strings the read operations are asked about: the tokens and every
\* string one codepoint longer than a token
Queries == Tokens \cup {t \o to_string(c) : t \in Tokens, c \in Alphabet}

\* document references are strings as well; these two are also tokens
DocRefs == {Str(<<97>>), Str(<<233>>)}

(***************************************************************************)
(* HashMap                                                                 *)
(***************************************************************************)
EmptyMap == [k \in {} |-> 0]
MapInsert(m, k, v) == [x \in (DOMAIN m) \cup {k} |-> IF x = k THEN v ELSE m[x]]
MapRemove(m, k) == [x \in (DOMAIN m) \ {k} |-> m[x]]

(***************************************************************************)
(* IndexItem                                                               *)
(***************************************************************************)
TermFrequency(term_freq) == [term_freq |-> term_freq]

IndexItem_new == [docs |-> EmptyMap, doc_freq |-> 0, children |-> EmptyMap]

\* variant of entry_or_insert: insert(key, IndexItem::new()), which replaces
\* an existing child
entry_or_insert_fresh(children, key) == IndexItem_new

\* self.children.entry(key).or_insert(IndexItem::new())
entry_or_insert(children, key) ==
    IF key \in DOMAIN children THEN children[key] ELSE IndexItem_new

\* variant of add_update: the posting is kept when doc_ref already has one
add_update_keep(item, doc_ref, term_freq) ==
    IF doc_ref \notin DOMAIN item.docs
    THEN [item EXCEPT
            !.doc_freq = @ + 1,
            !.docs = MapInsert(@, doc_ref, TermFrequency(term_freq))]
    ELSE item

\* variant of add_update: doc_freq is incremented on every call
add_update_always_inc(item, doc_ref, term_freq) ==
    [item EXCEPT
        !.doc_freq = @ + 1,
        !.docs = MapInsert(@, doc_ref, TermFrequency(term_freq))]

\* variant of add_update: the postings of the node are replaced by the one
\* posting of doc_ref
add_update_replace(item, doc_ref, term_freq) ==
    [item EXCEPT
        !.doc_freq = 1,
        !.docs = MapInsert(EmptyMap, doc_ref, TermFrequency(term_freq))]

\* add_token at the end of the token: "now update info"
add_update(item, doc_ref, term_freq) ==
    [item EXCEPT
        !.doc_freq = IF doc_ref \notin DOMAIN item.docs THEN @ + 1 ELSE @,
        !.docs = MapInsert(@, doc_ref, TermFrequency(term_freq))]

RECURSIVE IndexItem_add_token_rootpost(_, _, _, _)
\* variant of IndexItem_add_token: an empty token is taken as the end of the
\* token, and the node it is called on is updated
IndexItem_add_token_rootpost(self, doc_ref, token, term_freq) ==
    LET iter == char_indices(token)
    IN  IF Len(iter) = 0 THEN add_update(self, doc_ref, term_freq)
        ELSE LET key == to_string(iter[1].char)
                 item == entry_or_insert(self.children, key)
                 item2 == IF Len(iter) >= 2
                          THEN IndexItem_add_token_rootpost(item, doc_ref,
                                   SliceFrom(token, iter[2].index), term_freq)
                          ELSE add_update(item, doc_ref, term_freq)
             IN  [self EXCEPT !.children = MapInsert(@, key, item2)]

RECURSIVE IndexItem_add_token_allpath(_, _, _, _)
\* variant of IndexItem_add_token: the info of every node on the path is
\* updated, not only that of the node at the end of the token
IndexItem_add_token_allpath(self, doc_ref, token, term_freq) ==
    LET iter == char_indices(token)
    IN  IF Len(iter) = 0 THEN self
        ELSE LET key == to_string(iter[1].char)
                 item == add_update(entry_or_insert(self.children, key),
                                    doc_ref, term_freq)
                 item2 == IF Len(iter) >= 2
                          THEN IndexItem_add_token_allpath(item, doc_ref,
                                   SliceFrom(token, iter[2].index), term_freq)
                          ELSE item
             IN  [self EXCEPT !.children = MapInsert(@, key, item2)]

RECURSIVE IndexItem_add_token(_, _, _, _)
IndexItem_add_token(self, doc_ref, token, term_freq) ==
    LET iter == char_indices(token)
    IN  IF Len(iter) = 0 THEN self
        ELSE LET key == to_string(iter[1].char)
                 item == entry_or_insert(self.children, key)
                 item2 == IF Len(iter) >= 2
                          THEN IndexItem_add_token(item, doc_ref,
                                   SliceFrom(token, iter[2].index), term_freq)
                          ELSE add_update(item, doc_ref, term_freq)
             IN  [self EXCEPT !.children = MapInsert(@, key, item2)]

RECURSIVE get_node_from_lenient(_, _)
\* variant of get_node_from: a missing child ends the walk (break) instead of
\* returning None
get_node_from_lenient(root, cs) ==
    IF Len(cs) = 0 THEN Some(root)
    ELSE LET key == to_string(Head(cs))
         IN  IF key \in DOMAIN root.children
             THEN get_node_from_lenient(root.children[key], Tail(cs))
             ELSE Some(root)

RECURSIVE get_node_from(_, _)
\* the loop of get_node: root is the node reached, cs the chars still to walk
get_node_from(root, cs) ==
    IF Len(cs) = 0 THEN Some(root)
    ELSE LET key == to_string(Head(cs))
         IN  IF key \in DOMAIN root.children
             THEN get_node_from(root.children[key], Tail(cs))
             ELSE None

get_node(self, token) == get_node_from(self, chars(token))

\* variant of remove_update: doc_freq is not decremented
remove_update_nodec(item, doc_ref) ==
    IF doc_ref \in DOMAIN item.docs
    THEN [item EXCEPT !.docs = MapRemove(@, doc_ref)]
    ELSE item

\* variant of remove_update: the posting is not removed
remove_update_keepdoc(item, doc_ref) ==
    IF doc_ref \in DOMAIN item.docs
    THEN [item EXCEPT !.doc_freq = @ - 1]
    ELSE item

\* variant of remove_update: doc_freq is decremented outside the test
remove_update_uncond(item, doc_ref) ==
    [item EXCEPT !.docs = MapRemove(@, doc_ref), !.doc_freq = @ - 1]

\* remove_token at the end of the token
remove_update(item, doc_ref) ==
    IF doc_ref \in DOMAIN item.docs
    THEN [item EXCEPT !.docs = MapRemove(@, doc_ref), !.doc_freq = @ - 1]
    ELSE item

RECURSIVE IndexItem_remove_token_prune(_, _, _)
\* variant of IndexItem_remove_token: a child left without postings and
\* without children is dropped from the children map
IndexItem_remove_token_prune(self, doc_ref, token) ==
    LET iter == char_indices(token)
    IN  IF Len(iter) = 0 THEN self
        ELSE LET key == to_string(iter[1].char)
             IN  IF key \in DOMAIN self.children
                 THEN LET item == self.children[key]
                          item2 == IF Len(iter) >= 2
                                   THEN IndexItem_remove_token_prune(item, doc_ref,
                                            SliceFrom(token, iter[2].index))
                                   ELSE remove_update(item, doc_ref)
                      IN  IF DOMAIN item2.docs = {} /\ DOMAIN item2.children = {}
                          THEN [self EXCEPT !.children = MapRemove(@, key)]
                          ELSE [self EXCEPT !.children[key] = item2]
                 ELSE self

RECURSIVE IndexItem_remove_token_create(_, _, _)
\* variant of IndexItem_remove_token: the path is walked as add_token walks
\* it, with entry(key).or_insert(IndexItem::new())
IndexItem_remove_token_create(self, doc_ref, token) ==
    LET iter == char_indices(token)
    IN  IF Len(iter) = 0 THEN self
        ELSE LET key == to_string(iter[1].char)
                 item == entry_or_insert(self.children, key)
                 item2 == IF Len(iter) >= 2
                          THEN IndexItem_remove_token_create(item, doc_ref,
                                   SliceFrom(token, iter[2].index))
                          ELSE remove_update(item, doc_ref)
             IN  [self EXCEPT !.children = MapInsert(@, key, item2)]

RECURSIVE IndexItem_remove_token(_, _, _)
IndexItem_remove_token(self, doc_ref, token) ==
    LET iter == char_indices(token)
    IN  IF Len(iter) = 0 THEN self
        ELSE LET key == to_string(iter[1].char)
             IN  IF key \in DOMAIN self.children
                 THEN LET item == self.children[key]
                          item2 == IF Len(iter) >= 2
                                   THEN IndexItem_remove_token(item, doc_ref,
                                            SliceFrom(token, iter[2].index))
                                   ELSE remove_update(item, doc_ref)
                      IN  [self EXCEPT !.children[key] = item2]
                 ELSE self

(***************************************************************************)
(* The walks of add_token, remove_token and get_node, call by call         *)
(***************************************************************************)
RECURSIVE add_token_calls_always(_)
\* variant of add_token_calls: the call recurses on the remainder of every
\* non-empty token, the empty remainder included
add_token_calls_always(token) ==
    LET iter == char_indices(token)
    IN  <<token>> \o
            (IF Len(iter) >= 1
             THEN add_token_calls_always(
                      SliceFrom(token, Len(to_string(iter[1].char))))
             ELSE <<>>)

RECURSIVE add_token_calls(_)
\* the token argument of every IndexItem::add_token call that add_token
\* makes for a token, the outermost call first
add_token_calls(token) ==
    LET iter == char_indices(token)
    IN  <<token>> \o
            (IF Len(iter) >= 2
             THEN add_token_calls(SliceFrom(token, iter[2].index))
             ELSE <<>>)

RECURSIVE remove_token_calls(_, _)
\* the token argument of every IndexItem::remove_token call that
\* remove_token makes on the node self, the outermost call first
remove_token_calls(self, token) ==
    LET iter == char_indices(token)
    IN  <<token>> \o
            (IF Len(iter) >= 2 /\ to_string(iter[1].char) \in DOMAIN self.children
             THEN remove_token_calls(self.children[to_string(iter[1].char)],
                                     SliceFrom(token, iter[2].index))
             ELSE <<>>)

RECURSIVE get_node_iterations(_, _)
\* the number of iterations of the loop of get_node that are entered
get_node_iterations(root, cs) ==
    IF Len(cs) = 0 THEN 0
    ELSE LET key == to_string(Head(cs))
         IN  IF key \in DOMAIN root.children
             THEN 1 + get_node_iterations(root.children[key], Tail(cs))
             ELSE 1

(***************************************************************************)
(* Serialize.  A serialized value is a tagged record; a serialized map is  *)
(* the set of its (key, value) entries, the order of the entries not being *)
(* part of the value (the children are written in the iteration order of a *)
(* HashMap).                                                               *)
(***************************************************************************)
JInt(n) == [t |-> "int", v |-> n]
JFloat(x) == [t |-> "float", v |-> x]
JMap(entries) == [t |-> "map", v |-> entries]
Entry(k, v) == [key |-> k, value |-> v]

\* the field names "df", "docs", "tf" and "root"
Key_df == Str(<<100, 102>>)
Key_docs == Str(<<100, 111, 99, 115>>)
Key_tf == Str(<<116, 102>>)
Key_root == Str(<<114, 111, 111, 116>>)

\* derived Serialize of TermFrequency, its one field renamed to "tf"
TermFrequency_serialize(tf) == JMap({Entry(Key_tf, JFloat(tf.term_freq))})

\* Serialize of the docs HashMap<String, TermFrequency>
docs_serialize(docs) ==
    JMap({Entry(k, TermFrequency_serialize(docs[k])) : k \in DOMAIN docs})

\* the length announced to serialize_map
serialize_map_len(self) == 2 + Cardinality(DOMAIN self.children)

RECURSIVE IndexItem_serialize_nested(_)
\* variant of IndexItem_serialize: the children are written as one map under
\* a key "children"
IndexItem_serialize_nested(self) ==
    JMap({Entry(Key_df, JInt(self.doc_freq)),
          Entry(Key_docs, docs_serialize(self.docs)),
          Entry(Str(<<99, 104, 105, 108, 100, 114, 101, 110>>),
                JMap({Entry(key, IndexItem_serialize_nested(self.children[key])) :
                         key \in DOMAIN self.children}))})

RECURSIVE IndexItem_serialize(_)
IndexItem_serialize(self) ==
    JMap({Entry(Key_df, JInt(self.doc_freq)),
          Entry(Key_docs, docs_serialize(self.docs))}
         \cup {Entry(key, IndexItem_serialize(self.children[key])) :
                  key \in DOMAIN self.children})

\* variant of InvertedIndex_serialize: the root is written in place of the
\* struct (serde(transparent))
InvertedIndex_serialize_transparent(idx) == IndexItem_serialize(idx.root)

\* derived Serialize of InvertedIndex: a struct with the one field "root"
InvertedIndex_serialize(idx) ==
    JMap({Entry(Key_root, IndexItem_serialize(idx.root))})

(***************************************************************************)
(* InvertedIndex                                                           *)
(***************************************************************************)
InvertedIndex_new == [root |-> IndexItem_new]

VARIABLES
    index,      \* the InvertedIndex
    before,     \* the InvertedIndex as it was when the last call was made
    call,       \* the last call made on the index
    was,        \* what last held for the pair of the last call when that
                \* call was made
    added,      \* the tokens passed to add_token so far
    last,       \* per (doc_ref, token): Some(f) if the most recent call on
                \* the pair was add_token(.., f), None otherwise
    calls       \* number of calls made

vars == <<index, before, call, was, added, last, calls>>

NoCall == [op |-> "new", doc_ref |-> <<>>, token |-> <<>>, term_freq |-> 0]

Init ==
    /\ index = InvertedIndex_new
    /\ before = InvertedIndex_new
    /\ call = NoCall
    /\ was = None
    /\ added = {}
    /\ last = [p \in DocRefs \X Tokens |-> None]
    /\ calls = 0

add_token(doc_ref, token, term_freq) ==
    /\ calls < MaxCalls
    /\ index' = [index EXCEPT
                    !.root = IndexItem_add_token(@, doc_ref, token, term_freq)]
    /\ before' = index
    /\ was' = last[<<doc_ref, token>>]
    /\ call' = [op |-> "add_token", doc_ref |-> doc_ref, token |-> token,
                term_freq |-> term_freq]
    /\ added' = added \cup {token}
    /\ last' = [last EXCEPT ![<<doc_ref, token>>] = Some(term_freq)]
    /\ calls' = calls + 1

remove_token(doc_ref, token) ==
    /\ calls < MaxCalls
    /\ index' = [index EXCEPT
                    !.root = IndexItem_remove_token(@, doc_ref, token)]
    /\ before' = index
    /\ was' = last[<<doc_ref, token>>]
    /\ call' = [op |-> "remove_token", doc_ref |-> doc_ref, token |-> token,
                term_freq |-> 0]
    /\ added' = added
    /\ last' = [last EXCEPT ![<<doc_ref, token>>] = None]
    /\ calls' = calls + 1

\* the read operations, on an index idx
has_token(idx, token) ==
    LET n == get_node(idx.root, token) IN IF n.some THEN TRUE ELSE FALSE

\* variant of get_docs: an empty mapping stands in for a missing node
get_docs_default(idx, token) ==
    LET n == get_node(idx.root, token)
    IN  IF n.some
        THEN Some([k \in DOMAIN n.val.docs |-> n.val.docs[k].term_freq])
        ELSE Some(EmptyMap)

get_docs(idx, token) ==
    LET n == get_node(idx.root, token)
    IN  IF n.some
        THEN Some([k \in DOMAIN n.val.docs |-> n.val.docs[k].term_freq])
        ELSE None

\* variant of get_term_frequency: map_or(1., ..)
get_term_frequency_default1(idx, doc_ref, token) ==
    LET n == get_node(idx.root, token)
        docs == IF n.some /\ doc_ref \in DOMAIN n.val.docs
                THEN Some(n.val.docs[doc_ref]) ELSE None
    IN  IF docs.some THEN docs.val.term_freq ELSE 1

get_term_frequency(idx, doc_ref, token) ==
    LET n == get_node(idx.root, token)
        docs == IF n.some /\ doc_ref \in DOMAIN n.val.docs
                THEN Some(n.val.docs[doc_ref]) ELSE None
    IN  IF docs.some THEN docs.val.term_freq ELSE 0

get_doc_frequency(idx, token) ==
    LET n == get_node(idx.root, token)
    IN  IF n.some THEN n.val.doc_freq ELSE 0

Next ==
    \E doc_ref \in DocRefs, token \in Tokens :
        \/ \E term_freq \in Freqs : add_token(doc_ref, token, term_freq)
        \/ remove_token(doc_ref, token)

Spec == Init /\ [][Next]_vars

(***************************************************************************)
(* Vocabulary of the properties                                            *)
(***************************************************************************)
RECURSIVE Nodes(_)
\* every trie node of the subtree rooted at self
Nodes(self) ==
    {self} \cup UNION {Nodes(self.children[k]) : k \in DOMAIN self.children}

\* p is a prefix of t (both are well-formed UTF-8, so a byte prefix that is a
\* string is a codepoint prefix)
IsPrefix(p, t) == Len(p) <= Len(t) /\ SubSeq(t, 1, Len(p)) = p

\* s is a prefix of some token passed to add_token so far
IsPrefixOfAdded(s) == \E t \in added : IsPrefix(s, t)

\* the documents whose most recent call on the pair (d, t) was an add_token
Posted(t) == IF t \in Tokens THEN {d \in DocRefs : last[<<d, t>>].some} ELSE {}

\* the last call was add_token / remove_token
Added == call.op = "add_token"
Removed == call.op = "remove_token"

\* d has a posting at token t in index idx
HasPosting(idx, d, t) ==
    get_docs(idx, t).some /\ d \in DOMAIN get_docs(idx, t).val

\* number of codepoints of a string
NumChars(t) == Len(chars(t))

(***************************************************************************)
(* C1: in every reachable state every trie node has doc_freq equal to the  *)
(* number of keys of its docs map (hence doc_freq is never negative).      *)
(***************************************************************************)
C1_DocFreqCountsDocs ==
    \A n \in Nodes(index.root) :
        n.doc_freq = Cardinality(DOMAIN n.docs) /\ n.doc_freq >= 0

\* a removal has taken the count of a two-codepoint token from 2 to 1
C1_Witness ==
    /\ Removed
    /\ NumChars(call.token) = 2
    /\ get_doc_frequency(before, call.token) = 2
    /\ get_doc_frequency(index, call.token) = 1

(***************************************************************************)
(* C2 as stated: right after add_token(d, t, f), for every token t,        *)
(* has_token(t) is true and get_term_frequency(d, t) equals f.             *)
(***************************************************************************)
C2_Original ==
    Added =>
        /\ has_token(index, call.token)
        /\ get_term_frequency(index, call.doc_ref, call.token) = call.term_freq

(***************************************************************************)
(* C2 amended: right after add_token(d, t, f) with a non-empty token t,    *)
(* has_token(t) is true and get_term_frequency(d, t) equals f.             *)
(***************************************************************************)
C2_AddThenLookup ==
    (Added /\ call.token # <<>>) =>
        /\ has_token(index, call.token)
        /\ get_term_frequency(index, call.doc_ref, call.token) = call.term_freq

\* a two-codepoint token was added over an existing posting of another value
C2_Witness ==
    /\ Added
    /\ NumChars(call.token) = 2
    /\ HasPosting(before, call.doc_ref, call.token)
    /\ get_term_frequency(before, call.doc_ref, call.token) # call.term_freq
    /\ get_term_frequency(index, call.doc_ref, call.token) = 2

(***************************************************************************)
(* C3: the index agrees with the abstract map of the most recent calls:    *)
(* for every non-empty token t whose node exists, get_docs(t) maps exactly *)
(* the documents whose most recent call on (d, t) was an add_token to the  *)
(* frequency of that call, and get_doc_frequency(t) is the number of such  *)
(* documents (0 when t has no node).                                       *)
(***************************************************************************)
C3_AgreesWithAbstractMap ==
    \A t \in Queries \ {<<>>} :
        LET docs == get_docs(index, t)
            df == get_doc_frequency(index, t)
            posted == Posted(t)
        IN  /\ docs.some => docs.val = [d \in posted |-> last[<<d, t>>].val]
            /\ df = Cardinality(posted)
            /\ ~docs.some => df = 0

\* a pair was added, removed and added again at a leaf node
C3_Witness ==
    /\ Added
    /\ ~was.some
    /\ NumChars(call.token) = 2
    /\ get_docs(before, call.token) = Some(EmptyMap)
    /\ Cardinality(Nodes(get_node(before.root, call.token).val)) = 1
    /\ call.term_freq = 2
    /\ get_docs(index, call.token).val[call.doc_ref] = 2

(***************************************************************************)
(* C4 as stated: has_token(s) is true exactly for the prefixes of the      *)
(* tokens passed to add_token so far, and false for every other string.    *)
(***************************************************************************)
C4_Original ==
    \A s \in Queries :
        /\ IsPrefixOfAdded(s) => has_token(index, s)
        /\ ~IsPrefixOfAdded(s) => ~has_token(index, s)

(***************************************************************************)
(* C4 amended: has_token(p) is true for every prefix p of every token      *)
(* passed to add_token so far, and has_token(s) is false for every         *)
(* non-empty string s that is a prefix of no such token; has_token of the  *)
(* empty string is true in every state, also before any add_token call.    *)
(***************************************************************************)
C4_HasTokenIffPrefix ==
    /\ has_token(index, <<>>)
    /\ \A s \in Queries :
        /\ IsPrefixOfAdded(s) => has_token(index, s)
        /\ (s # <<>> /\ ~IsPrefixOfAdded(s)) => ~has_token(index, s)

\* after a removal, the proper prefix of an added two-codepoint token is
\* there and its one-codepoint extension is not
C4_Witness ==
    /\ Removed
    /\ \E t \in added :
        /\ NumChars(t) = 2
        /\ \E p \in Queries : NumChars(p) = 1 /\ IsPrefix(p, t) /\ has_token(index, p)
        /\ \E s \in Queries : NumChars(s) = 3 /\ IsPrefix(t, s) /\ ~has_token(index, s)

(***************************************************************************)
(* C5 as stated: remove_token(d, t) made when the most recent call on the  *)
(* pair (d, t) was an add_token, for every token t, makes                  *)
(* get_term_frequency(d, t) 0, takes d out of get_docs(t), makes           *)
(* get_doc_frequency(t) one less than it was just before the removal and   *)
(* leaves has_token(t) true.                                               *)
(***************************************************************************)
C5_Original ==
    (Removed /\ was.some) =>
        /\ get_term_frequency(index, call.doc_ref, call.token) = 0
        /\ ~HasPosting(index, call.doc_ref, call.token)
        /\ get_doc_frequency(index, call.token)
               = get_doc_frequency(before, call.token) - 1
        /\ has_token(index, call.token)

(***************************************************************************)
(* C5 amended: the same for every non-empty token t.                       *)
(***************************************************************************)
C5_RemoveAfterAdd ==
    (Removed /\ was.some /\ call.token # <<>>) =>
        /\ get_term_frequency(index, call.doc_ref, call.token) = 0
        /\ ~HasPosting(index, call.doc_ref, call.token)
        /\ get_doc_frequency(index, call.token)
               = get_doc_frequency(before, call.token) - 1
        /\ has_token(index, call.token)

\* the second document of a token was added with a non-zero frequency and
\* then removed
C5_Witness ==
    /\ Removed
    /\ was = Some(2)
    /\ get_term_frequency(before, call.doc_ref, call.token) = 2
    /\ get_doc_frequency(before, call.token) = 2
    /\ get_doc_frequency(index, call.token) = 1
    /\ get_term_frequency(index, call.doc_ref, call.token) = 0

(***************************************************************************)
(* C6: re-adding an existing pair is an overwrite: when d already has a    *)
(* posting at t, add_token(d, t, f2) sets get_term_frequency(d, t) to f2,   *)
(* leaves get_doc_frequency(t) unchanged and leaves exactly one entry for  *)
(* d in get_docs(t) (the keys of get_docs(t) are the same as before).      *)
(***************************************************************************)
C6_ReAddOverwrites ==
    (Added /\ HasPosting(before, call.doc_ref, call.token)) =>
        /\ get_term_frequency(index, call.doc_ref, call.token) = call.term_freq
        /\ get_doc_frequency(index, call.token)
               = get_doc_frequency(before, call.token)
        /\ HasPosting(index, call.doc_ref, call.token)
        /\ get_docs(index, call.token).val[call.doc_ref] = call.term_freq
        /\ DOMAIN get_docs(index, call.token).val
               = DOMAIN get_docs(before, call.token).val

\* a posting of frequency 0 was overwritten with frequency 2 at a token that
\* has two documents
C6_Witness ==
    /\ Added
    /\ HasPosting(before, call.doc_ref, call.token)
    /\ get_docs(before, call.token).val[call.doc_ref] = 0
    /\ call.term_freq = 2
    /\ get_doc_frequency(index, call.token) = 2

(***************************************************************************)
(* C7: remove_token(d, t) is a no-op whenever d has no posting at t or the *)
(* path of t does not exist: the whole index is the same before and after. *)
(***************************************************************************)
C7_RemoveAbsentIsNoOp ==
    (Removed /\ ~HasPosting(before, call.doc_ref, call.token)) =>
        index = before

\* a removal of a document that is not posted at an existing node that has
\* another document
C7_Witness ==
    /\ Removed
    /\ ~HasPosting(before, call.doc_ref, call.token)
    /\ has_token(before, call.token)
    /\ get_doc_frequency(before, call.token) = 1

(***************************************************************************)
(* C8: node existence is permanent: once has_token(s) is true it stays     *)
(* true over every later add_token and remove_token call.                  *)
(***************************************************************************)
C8_NodesArePermanent ==
    [][\A s \in Queries : has_token(index, s) => has_token(index', s)]_vars

\* a removal has emptied the postings of a leaf node, which still exists
C8_Witness ==
    /\ Removed
    /\ HasPosting(before, call.doc_ref, call.token)
    /\ has_token(index, call.token)
    /\ get_docs(index, call.token).val = EmptyMap
    /\ \A s \in Queries : IsPrefix(call.token, s) /\ s # call.token
                              => ~has_token(index, s)

(***************************************************************************)
(* C9 as stated: get_docs on a (non-empty) token that was never passed to  *)
(* add_token returns None, which tells a never-indexed token from an       *)
(* indexed token without documents.                                        *)
(***************************************************************************)
C9_Original ==
    \A t \in Queries \ {<<>>} : t \notin added => get_docs(index, t) = None

(***************************************************************************)
(* C9 amended: get_docs on a non-empty token that is a prefix of no token  *)
(* passed to add_token returns None, and on every prefix of a token passed *)
(* to add_token (indexed itself or not) it returns a mapping, which is     *)
(* empty when the token currently has no documents.                        *)
(***************************************************************************)
C9_GetDocsNotFound ==
    \A t \in Queries \ {<<>>} :
        /\ ~IsPrefixOfAdded(t) => get_docs(index, t) = None
        /\ IsPrefixOfAdded(t) => get_docs(index, t).some
        /\ (IsPrefixOfAdded(t) /\ Posted(t) = {}) =>
               get_docs(index, t) = Some(EmptyMap)

\* one token was indexed and emptied again, its proper prefix was never
\* passed to add_token, and a third token has no node
C9_Witness ==
    /\ Removed
    /\ NumChars(call.token) = 2
    /\ HasPosting(before, call.doc_ref, call.token)
    /\ get_docs(index, call.token) = Some(EmptyMap)
    /\ \E p \in Queries \ added :
           p # <<>> /\ IsPrefix(p, call.token) /\ get_docs(index, p) = Some(EmptyMap)
    /\ \E t \in Tokens \ {<<>>} : get_docs(index, t) = None

C11_RootHoldsNoPostings ==
    /\ index.root.docs = EmptyMap
    /\ index.root.doc_freq = 0
    /\ get_docs(index, <<>>) = Some(EmptyMap)
    /\ get_doc_frequency(index, <<>>) = 0

\* add_token was called with the empty token and a non-zero frequency on an
\* index that holds a posting elsewhere
C11_Witness ==
    /\ Added
    /\ call.token = <<>>
    /\ call.term_freq = 2
    /\ \E t \in Tokens : get_doc_frequency(index, t) = 1

(***************************************************************************)
(* Vocabulary of the serialization properties                              *)
(***************************************************************************)
\* the index holds the single insertion (d, "a", 2.0) for some document d
SingleInsertion ==
    calls = 1 /\ Added /\ call.token = Str(<<97>>) /\ call.term_freq = 2

\* {"df": 0, "docs": {}, "a": {"df": 1, "docs": {d: {"tf": 2.0}}}}
ExpectedRootMap(d) ==
    JMap({Entry(Key_df, JInt(0)),
          Entry(Key_docs, JMap({})),
          Entry(Str(<<97>>),
                JMap({Entry(Key_df, JInt(1)),
                      Entry(Key_docs,
                            JMap({Entry(d, JMap({Entry(Key_tf, JFloat(2))}))}))}))})

\* the keys of a serialized map
KeysOf(m) == {e.key : e \in m.v}

(***************************************************************************)
(* C12 as stated: serializing an Index yields the serialized map of its    *)
(* root node itself: after the single insertion (d, "a", 2.0) the output   *)
(* is {"df": 0, "docs": {}, "a": {"df": 1, "docs": {d: {"tf": 2.0}}}},     *)
(* with "df" and "docs" as top-level keys.                                 *)
(***************************************************************************)
C12_Original ==
    SingleInsertion =>
        /\ InvertedIndex_serialize(index) = ExpectedRootMap(call.doc_ref)
        /\ {Key_df, Key_docs} \subseteq KeysOf(InvertedIndex_serialize(index))

(***************************************************************************)
(* C12 amended: serializing an Index yields a map with the single key      *)
(* "root", whose value is the serialized map of the root node: after the   *)
(* single insertion (d, "a", 2.0) the output is {"root": {"df": 0,         *)
(* "docs": {}, "a": {"df": 1, "docs": {d: {"tf": 2.0}}}}}.                 *)
(***************************************************************************)
C12_SerializedUnderRoot ==
    /\ KeysOf(InvertedIndex_serialize(index)) = {Key_root}
    /\ SingleInsertion =>
           InvertedIndex_serialize(index) =
               JMap({Entry(Key_root, ExpectedRootMap(call.doc_ref))})

\* the index after the single insertion (d, "a", 2.0)
C12_Witness ==
    /\ SingleInsertion
    /\ index.root.children[Str(<<97>>)].docs[call.doc_ref].term_freq = 2
    /\ Cardinality(Nodes(index.root)) = 2

(***************************************************************************)
(* C13: for every node of every reachable index, the serialized map of the *)
(* node has exactly 2 + |children| distinct keys: "df" mapped to the       *)
(* node's doc_freq, "docs" mapped to a map from each posting's document    *)
(* reference to {"tf": its frequency}, and one key per child, equal to the *)
(* child's single-codepoint edge and mapped to the child's own serialized  *)
(* map; no child key equals "df" or "docs".                                *)
(***************************************************************************)
C13_SerializedNodeShape ==
    \A n \in Nodes(index.root) :
        LET m == IndexItem_serialize(n)
        IN  /\ m.t = "map"
            /\ Cardinality(m.v) = 2 + Cardinality(DOMAIN n.children)
            /\ Cardinality(KeysOf(m)) = 2 + Cardinality(DOMAIN n.children)
            /\ serialize_map_len(n) = Cardinality(KeysOf(m))
            /\ Entry(Key_df, JInt(n.doc_freq)) \in m.v
            /\ Entry(Key_docs,
                     JMap({Entry(d, JMap({Entry(Key_tf, JFloat(n.docs[d].term_freq))})) :
                              d \in DOMAIN n.docs})) \in m.v
            /\ \A k \in DOMAIN n.children :
                /\ NumChars(k) = 1
                /\ k \notin {Key_df, Key_docs}
                /\ Entry(k, IndexItem_serialize(n.children[k])) \in m.v

\* the root has two children, one of them with a child of its own, and some
\* node has two postings
C13_Witness ==
    /\ Cardinality(DOMAIN index.root.children) = 2
    /\ \E k \in DOMAIN index.root.children :
           DOMAIN index.root.children[k].children # {}
    /\ \E n \in Nodes(index.root) : Cardinality(DOMAIN n.docs) = 2

(***************************************************************************)
(* C14: add_token(d, t, f) with a non-empty t changes only the posting of  *)
(* d and the doc_freq at the terminal node of t, and possibly adds new     *)
(* empty nodes along the path of t: every node that existed before still   *)
(* exists, the docs and doc_freq of every node other than the terminal     *)
(* node of t are unchanged, and so are the postings of every other         *)
(* document at the terminal node of t.                                     *)
(***************************************************************************)
C14_AddTokenFrame ==
    (Added /\ call.token # <<>>) =>
        \A s \in Queries :
            LET b == get_node(before.root, s)
                a == get_node(index.root, s)
            IN  /\ b.some => a.some
                /\ (b.some /\ s # call.token) =>
                       /\ a.val.docs = b.val.docs
                       /\ a.val.doc_freq = b.val.doc_freq
                /\ (b.some /\ s = call.token) =>
                       \A d \in DocRefs \ {call.doc_ref} :
                           /\ (d \in DOMAIN a.val.docs) = (d \in DOMAIN b.val.docs)
                           /\ d \in DOMAIN b.val.docs => a.val.docs[d] = b.val.docs[d]
                /\ (a.some /\ ~b.some) =>
                       /\ IsPrefix(s, call.token)
                       /\ s # call.token =>
                              a.val.docs = EmptyMap /\ a.val.doc_freq = 0

\* a three-codepoint token was added below a node that holds a posting: two
\* nodes are new, the one in between is empty, and the posting is as before
C14_Witness ==
    /\ Added
    /\ NumChars(call.token) = 3
    /\ \E p \in Tokens :
        /\ NumChars(p) = 1 /\ IsPrefix(p, call.token)
        /\ get_doc_frequency(before, p) = 1
        /\ get_docs(index, p) = get_docs(before, p)
    /\ \E q \in Tokens :
        /\ NumChars(q) = 2 /\ IsPrefix(q, call.token)
        /\ ~has_token(before, q)
        /\ get_docs(index, q) = Some(EmptyMap)
    /\ get_doc_frequency(index, call.token) = 1

(***************************************************************************)
(* C15: remove_token(d, t) never changes the set of trie nodes or child    *)
(* edges (it creates no missing node on the path and deletes no node), and *)
(* the only data it can change is the posting of d and the doc_freq at the *)
(* terminal node of t.                                                     *)
(***************************************************************************)
C15_RemoveTokenFrame ==
    Removed =>
        \A s \in Queries :
            LET b == get_node(before.root, s)
                a == get_node(index.root, s)
            IN  /\ a.some = b.some
                /\ b.some => DOMAIN a.val.children = DOMAIN b.val.children
                /\ (b.some /\ s # call.token) =>
                       /\ a.val.docs = b.val.docs
                       /\ a.val.doc_freq = b.val.doc_freq
                /\ (b.some /\ s = call.token) =>
                       \A d \in DocRefs \ {call.doc_ref} :
                           /\ (d \in DOMAIN a.val.docs) = (d \in DOMAIN b.val.docs)
                           /\ d \in DOMAIN b.val.docs => a.val.docs[d] = b.val.docs[d]

\* one of the two postings of a node was removed: the other is still there
\* and the index is not what it was
C15_Witness ==
    /\ Removed
    /\ call.token # <<>>
    /\ get_doc_frequency(before, call.token) = 2
    /\ get_doc_frequency(index, call.token) = 1
    /\ \E d \in DocRefs \ {call.doc_ref} : HasPosting(index, d, call.token)
    /\ index # before

(***************************************************************************)
(* Vocabulary of the walk properties                                       *)
(***************************************************************************)
\* the IndexItem calls made by the last call on the index
LastCalls ==
    IF Added THEN add_token_calls(call.token)
    ELSE IF Removed THEN remove_token_calls(before.root, call.token)
    ELSE <<>>

(***************************************************************************)
(* C16: an empty token has no indexing effect: add_token(d, "", f) and     *)
(* remove_token(d, "") leave the whole index unchanged, and no recursive   *)
(* add_token / remove_token call is made with an empty remainder.          *)
(***************************************************************************)
C16_EmptyTokenNoEffect ==
    /\ ((Added \/ Removed) /\ call.token = <<>>) => index = before
    /\ \A k \in 2..Len(LastCalls) : LastCalls[k] # <<>>

\* add_token was called with the empty token and a non-zero frequency on an
\* index that has a node with two postings
C16_Witness ==
    /\ Added
    /\ call.token = <<>>
    /\ call.term_freq = 2
    /\ index = before
    /\ \E t \in Tokens : get_doc_frequency(before, t) = 2

(***************************************************************************)
(* C17: every add_token, remove_token and get_node call terminates: each   *)
(* recursive call or loop iteration consumes exactly one codepoint, so the *)
(* walk makes at most length(t) steps, and the remainder is always cut at  *)
(* a codepoint boundary (no call fails).                                   *)
(***************************************************************************)
C17_WalkConsumesOneCodepoint ==
    /\ (Added \/ Removed) =>
        /\ Len(LastCalls) >= 1
        /\ LastCalls[1] = call.token
        /\ Len(LastCalls) <= IF call.token = <<>> THEN 1 ELSE NumChars(call.token)
        /\ Added => Len(LastCalls) = IF call.token = <<>> THEN 1
                                     ELSE NumChars(call.token)
        /\ \A k \in 1..(Len(LastCalls) - 1) :
               LastCalls[k] = to_string(chars(LastCalls[k])[1]) \o LastCalls[k + 1]
    /\ \A s \in Queries :
        /\ get_node_iterations(index.root, chars(s)) <= NumChars(s)
        /\ has_token(index, s) =>
               get_node_iterations(index.root, chars(s)) = NumChars(s)

\* a three-codepoint token with a two-byte codepoint in the middle was added
\* in three calls, and get_node stops early on a string that has no node
C17_Witness ==
    /\ Added
    /\ NumChars(call.token) = 3
    /\ Len(call.token) = 4
    /\ Len(LastCalls) = 3
    /\ \E s \in Queries :
           NumChars(s) = 2 /\ get_node_iterations(index.root, chars(s)) = 1

(***************************************************************************)
(* C18: insertions on different pairs commute: from any reachable state    *)
(* and for any (d1, t1) # (d2, t2), add_token(d1, t1, f1) followed by      *)
(* add_token(d2, t2, f2) yields exactly the same index as the two calls    *)
(* made in the opposite order.                                             *)
(***************************************************************************)
C18_InsertionsCommute ==
    Added =>
        \A d2 \in DocRefs, t2 \in Tokens, f2 \in Freqs :
            <<d2, t2>> # <<call.doc_ref, call.token>> =>
                IndexItem_add_token(index.root, d2, t2, f2) =
                    IndexItem_add_token(
                        IndexItem_add_token(before.root, d2, t2, f2),
                        call.doc_ref, call.token, call.term_freq)

\* a second document was added at a two-codepoint token that had one posting
C18_Witness ==
    /\ Added
    /\ ~was.some
    /\ NumChars(call.token) = 2
    /\ get_doc_frequency(before, call.token) = 1
    /\ get_doc_frequency(index, call.token) = 2

(***************************************************************************)
(* C19: remove_token undoes add_token exactly when the path already        *)
(* exists: where the node of a non-empty token t exists and d has no       *)
(* posting at t, add_token(d, t, f) followed by remove_token(d, t) gives   *)
(* back the index as it was before the add; where the node of t does not   *)
(* exist, or d has a posting at t, it does not.                            *)
(***************************************************************************)
C19_RemoveUndoesAdd ==
    (Added /\ call.token # <<>>) =>
        ((has_token(before, call.token)
              /\ ~HasPosting(before, call.doc_ref, call.token))
         <=> (IndexItem_remove_token(index.root, call.doc_ref, call.token)
                  = before.root))

\* a document was added at an existing two-codepoint token that holds the
\* posting of another document; removing it again gives the index before
C19_Witness ==
    /\ Added
    /\ NumChars(call.token) = 2
    /\ get_doc_frequency(before, call.token) = 1
    /\ ~HasPosting(before, call.doc_ref, call.token)
    /\ index # before
    /\ IndexItem_remove_token(index.root, call.doc_ref, call.token) = before.root

====
